---- MODULE Spec2Model ----
(***************************************************************************)
(* The request gate of the Enterprise API (src/middleware/auth.js): the    *)
(* sliding-window rate limiter checkRateLimit, the API-key verification    *)
(* of the enhanced middleware, and the way the routers put the gate in     *)
(* front of the route handlers.                                            *)
(*                                                                         *)
(* Node runs one middleware invocation to completion before the next one   *)
(* starts, so there is one request in flight; the wall clock (Date.now())  *)
(* may advance between any two steps of it.                                *)
(*                                                                         *)
(* Time is in milliseconds.  RATE_LIMIT_WINDOW and RATE_LIMIT_MAX_REQUESTS *)
(* (auth.js:16-17, 900000 ms and 100 requests) are scaled down so that the *)
(* reachable states can be enumerated; the divisor of the retryAfter       *)
(* computation keeps its value.                                            *)
(***************************************************************************)
EXTENDS Integers, Sequences, FiniteSets, TLC

VARIABLES now, API_KEY, app, requestStore, pc, req, lastResult, streak,
          recording, allowedLog, rejectLog, analytics, conc, staff

vars == <<now, API_KEY, app, requestStore, pc, req, lastResult, streak,
          recording, allowedLog, rejectLog, analytics, conc, staff>>

\* The state of the gate and of the request in flight.
gateVars == <<now, API_KEY, app, requestStore, pc, req, lastResult, streak,
              recording, allowedLog, rejectLog>>

\* ------------------------------------------------------------------ bounds
RATE_LIMIT_WINDOW == 2

RATE_LIMIT_MAX_REQUESTS == 2

MaxTime == 3

NCalls == 2

MaxEmployees == 4

\* ------------------------------------------------------- program constants
MsPerSecond == 1000

DaysPerYear == 365

BudgetScorePerMillion == 30

\* ------------------------------------------------------------ JS values
\* A value that may be undefined: a header, an environment variable.
Undefined == [set |-> FALSE, val |-> <<>>]

Str(s) == [set |-> TRUE, val |-> s]

\* JS truthiness of a string-or-undefined: undefined and "" are falsy.
Truthy(v) == v.set /\ Len(v.val) > 0

\* Math.ceil(a / b) for b > 0, a of either sign (Math.ceil(-0.5) is -0).
MathCeilDiv(a, b) == IF a >= 0 THEN (a + b - 1) \div b ELSE -((-a) \div b)

Range(s) == {s[i] : i \in 1..Len(s)}

\* Math.min(...xs) of a non-empty array.
MathMin(s) == CHOOSE m \in Range(s) : \A x \in Range(s) : m <= x

\* UTF-8 encoding of one code point below U+0800.
Utf8Char(c) == IF c < 128 THEN <<c>> ELSE <<192 + (c \div 64), 128 + (c % 64)>>

RECURSIVE BufferFrom(_)
\* Buffer.from(str, 'utf8'): the bytes of the string.
BufferFrom(s) == IF s = <<>> THEN <<>> ELSE Utf8Char(Head(s)) \o BufferFrom(Tail(s))

\* Mutant: only the first byte is compared.
TimingSafeEqual_firstByte(a, b) == Len(a) = 0 \/ a[1] = b[1]

\* crypto.timingSafeEqual on two buffers of the same length.
TimingSafeEqual(a, b) == \A i \in 1..Len(a) : a[i] = b[i]

\* ------------------------------------------------------------ inputs
\* Strings are sequences of code points: 97 'a', 98 'b', 233 'e-acute'.
ApiKeys == {Undefined, Str(<<>>), Str(<<97, 98>>)}

Tokens == {Undefined, Str(<<>>), Str(<<97, 98>>), Str(<<97, 97>>), Str(<<98, 98>>),
           Str(<<97>>), Str(<<233>>)}

\* An absent header, the right key and a wrong one, for the runs in which
\* the clock advances.
SampleTokens == {Undefined, Str(<<97, 98>>), Str(<<97, 97>>)}

\* Peer addresses: req.ip and req.connection.remoteAddress ("" when
\* unavailable).  The last one is a request object that has neither an ip
\* nor a connection, as a caller that is not express's http server (a test
\* double, an adapter) may pass.
Peers == {[ip |-> "10.0.0.1", connection |-> TRUE, remoteAddress |-> "10.0.0.1"],
          [ip |-> "", connection |-> TRUE, remoteAddress |-> "10.0.0.1"],
          [ip |-> "", connection |-> TRUE, remoteAddress |-> ""],
          [ip |-> "", connection |-> FALSE, remoteAddress |-> ""]}

\* What an expression that throws a TypeError evaluates to.
Thrown == "TypeError"

\* getClientId: req.ip || req.connection.remoteAddress || 'unknown'; reading
\* remoteAddress of an undefined req.connection throws.
getClientId(peer) ==
  IF peer.ip # "" THEN peer.ip
  ELSE IF ~peer.connection THEN Thrown
  ELSE IF peer.remoteAddress # "" THEN peer.remoteAddress
  ELSE "unknown"

ClientIds == {getClientId(p) : p \in Peers} \ {Thrown}

\* ------------------------------------------------------------ routes
EmployeeRoutes == {"GET /api/employees/staff-directory",
                   "GET /api/employees/profile/:id",
                   "POST /api/employees/onboard",
                   "PUT /api/employees/modify/:id",
                   "DELETE /api/employees/deactivate/:id",
                   "GET /api/employees/intelligence/dashboard"}

DepartmentRoutes == {"GET /api/departments/org-units",
                     "GET /api/departments/unit-details/:id",
                     "POST /api/departments/establish",
                     "PUT /api/departments/restructure/:id",
                     "DELETE /api/departments/dissolve/:id",
                     "GET /api/departments/financial-intelligence/comprehensive",
                     "GET /api/departments/effectiveness/analytics"}

AppRoutes == {"GET /", "GET /health"}

BusinessRoutes == EmployeeRoutes \cup DepartmentRoutes

Routes == BusinessRoutes \cup AppRoutes

\* The two applications of the repository: src/app.js mounts the employee
\* router and /health; the enterprise application mounts both routers, '/'
\* and /health behind a middleware that sets X-Request-ID.
Apps == {"minimal", "enterprise"}

Mounted(a) ==
  IF a = "minimal" THEN EmployeeRoutes \cup {"GET /health"} ELSE Routes

\* app.use((req, res, next) => { ...; res.set('X-Request-ID', req.requestId) })
SetsRequestIdHeader(a) == a = "enterprise"

\* A route without the gate and one behind it, for the runs in which the
\* clock advances.
SampleRoutes == {"GET /health", "POST /api/employees/onboard"}

\* Mutant: one route is registered without the gate.
employeeRouter_unguarded ==
  [r \in EmployeeRoutes |->
     IF r = "GET /api/employees/intelligence/dashboard"
     THEN <<"handler">> ELSE <<"auth", "handler">>]

\* The callbacks each router.METHOD(path, ...) registers, in order.
employeeRouter == [r \in EmployeeRoutes |-> <<"auth", "handler">>]

departmentRouter == [r \in DepartmentRoutes |-> <<"auth", "handler">>]

\* app.get('/') and app.get('/health') register the handler alone.
appRouter == [r \in AppRoutes |-> <<"handler">>]

RouteStack(r) ==
  IF r \in EmployeeRoutes THEN employeeRouter[r]
  ELSE IF r \in DepartmentRoutes THEN departmentRouter[r]
  ELSE appRouter[r]

\* ------------------------------------------------------------ rate limiter
\* requestStore.get(clientId) of a client that has no entry.
NoEntry == [present |-> FALSE, requests |-> <<>>]

\* Mutant: nothing is pruned.
filterRequests_keepsAll(requests, t) == requests

\* Mutant: a timestamp exactly one window old is kept.
filterRequests_inclusive(requests, t) ==
  SelectSeq(requests, LAMBDA ts : t - ts <= RATE_LIMIT_WINDOW)

\* clientData.requests.filter((timestamp) => now - timestamp < RATE_LIMIT_WINDOW)
filterRequests(requests, t) == SelectSeq(requests, LAMBDA ts : t - ts < RATE_LIMIT_WINDOW)

\* Mutant: one request more than the limit is admitted.
LimitExceeded_offByOne(n) == n > RATE_LIMIT_MAX_REQUESTS

\* Mutant: the request being checked is counted before it is admitted.
LimitExceeded_countsCurrent(n) == n + 1 >= RATE_LIMIT_MAX_REQUESTS

\* clientData.requests.length >= RATE_LIMIT_MAX_REQUESTS
LimitExceeded(n) == n >= RATE_LIMIT_MAX_REQUESTS

\* Mutant: the reset time is taken from the newest timestamp.
DeniedResult_fromNewest(kept) ==
  [allowed |-> FALSE, remaining |-> 0,
   resetTime |-> kept[Len(kept)] + RATE_LIMIT_WINDOW]

\* The result of a denied call: kept is the pruned window.
DeniedResult(kept) ==
  [allowed |-> FALSE, remaining |-> 0,
   resetTime |-> MathMin(kept) + RATE_LIMIT_WINDOW]

\* Mutant: remaining is computed before the push.
AllowedResult_beforePush(requests, t) ==
  [allowed |-> TRUE, remaining |-> RATE_LIMIT_MAX_REQUESTS - Len(requests) + 1,
   resetTime |-> t + RATE_LIMIT_WINDOW]

\* The result of an allowed call: requests is the window after the push.
AllowedResult(requests, t) ==
  [allowed |-> TRUE, remaining |-> RATE_LIMIT_MAX_REQUESTS - Len(requests),
   resetTime |-> t + RATE_LIMIT_WINDOW]

\* Mutant: an allowed request is not recorded by the check.
checkRateLimit_doesNotRecord(store, clientId, t) ==
  LET kept == filterRequests(store[clientId].requests, t)
  IN  IF LimitExceeded(Len(kept))
      THEN [result |-> DeniedResult(kept),
            store |-> [store EXCEPT ![clientId].requests = kept]]
      ELSE [result |-> AllowedResult(Append(kept, t), t),
            store |-> [store EXCEPT ![clientId] =
                         [present |-> TRUE, requests |-> kept]]]

\* Mutant: a client with an empty window is turned away.
checkRateLimit_deniesEmpty(store, clientId, t) ==
  LET kept == filterRequests(store[clientId].requests, t)
  IN  IF kept = <<>>
      THEN [result |-> [allowed |-> FALSE, remaining |-> 0,
                        resetTime |-> t + RATE_LIMIT_WINDOW],
            store |-> store]
      ELSE IF LimitExceeded(Len(kept))
      THEN [result |-> DeniedResult(kept),
            store |-> [store EXCEPT ![clientId].requests = kept]]
      ELSE [result |-> AllowedResult(Append(kept, t), t),
            store |-> [store EXCEPT ![clientId] =
                         [present |-> TRUE, requests |-> Append(kept, t)]]]

\* Mutant: the new timestamp is put at the front of the window.
checkRateLimit_unshift(store, clientId, t) ==
  LET kept == filterRequests(store[clientId].requests, t)
  IN  IF LimitExceeded(Len(kept))
      THEN [result |-> DeniedResult(kept),
            store |-> IF store[clientId].present
                      THEN [store EXCEPT ![clientId].requests = kept]
                      ELSE store]
      ELSE [result |-> AllowedResult(<<t>> \o kept, t),
            store |-> [store EXCEPT ![clientId] =
                         [present |-> TRUE, requests |-> <<t>> \o kept]]]

\* Mutant: the entries whose timestamps have all expired are deleted.
checkRateLimit_evictsStale(store, clientId, t) ==
  LET swept == [d \in DOMAIN store |->
                  IF d # clientId /\ filterRequests(store[d].requests, t) = <<>>
                  THEN NoEntry ELSE store[d]]
      kept == filterRequests(store[clientId].requests, t)
  IN  IF LimitExceeded(Len(kept))
      THEN [result |-> DeniedResult(kept),
            store |-> IF store[clientId].present
                      THEN [swept EXCEPT ![clientId].requests = kept]
                      ELSE swept]
      ELSE [result |-> AllowedResult(Append(kept, t), t),
            store |-> [swept EXCEPT ![clientId] =
                         [present |-> TRUE, requests |-> Append(kept, t)]]]

\* Mutant: every client's window is pruned, not only the caller's.
checkRateLimit_prunesAll(store, clientId, t) ==
  LET pruned == [d \in DOMAIN store |->
                   [store[d] EXCEPT !.requests = filterRequests(@, t)]]
      kept == pruned[clientId].requests
  IN  IF LimitExceeded(Len(kept))
      THEN [result |-> DeniedResult(kept), store |-> pruned]
      ELSE [result |-> AllowedResult(Append(kept, t), t),
            store |-> [pruned EXCEPT ![clientId] =
                         [present |-> TRUE, requests |-> Append(kept, t)]]]

\* Mutant: the request is recorded before the limit is tested.
checkRateLimit_recordsFirst(store, clientId, t) ==
  LET old == IF store[clientId].present THEN store[clientId].requests ELSE <<>>
      requests == Append(filterRequests(old, t), t)
      stored == [store EXCEPT ![clientId] = [present |-> TRUE, requests |-> requests]]
  IN  IF Len(requests) > RATE_LIMIT_MAX_REQUESTS
      THEN [result |-> DeniedResult(requests), store |-> stored]
      ELSE [result |-> AllowedResult(requests, t), store |-> stored]

\* checkRateLimit(clientId) called when Date.now() is t: the result and the
\* store it leaves.  The entry's lastReset field is written once and never
\* read; it is left out.  The filter assigns to the object the Map holds, so
\* the denial path prunes the stored entry too; only the allowed path sets
\* an entry for a client that had none.
checkRateLimit(store, clientId, t) ==
  LET clientData == IF store[clientId].present
                    THEN store[clientId]
                    ELSE [present |-> TRUE, requests |-> <<>>]
      kept == filterRequests(clientData.requests, t)
  IN  IF LimitExceeded(Len(kept))
      THEN [result |-> DeniedResult(kept),
            store |-> IF store[clientId].present
                      THEN [store EXCEPT ![clientId].requests = kept]
                      ELSE store]
      ELSE [result |-> AllowedResult(Append(kept, t), t),
            store |-> [store EXCEPT ![clientId] =
                         [present |-> TRUE, requests |-> Append(kept, t)]]]

\* ------------------------------------------------------------ key verifier
\* Mutant: the lengths are compared, the bytes are not.
KeyMismatch_lengthOnly(token, validApiKey) ==
  Len(BufferFrom(token)) # Len(BufferFrom(validApiKey))

\* providedKey.length !== expectedKey.length || !crypto.timingSafeEqual(...)
KeyMismatch(token, validApiKey) ==
  LET providedKey == BufferFrom(token)
      expectedKey == BufferFrom(validApiKey)
  IN  Len(providedKey) # Len(expectedKey) \/ ~TimingSafeEqual(providedKey, expectedKey)

\* crypto.timingSafeEqual throws a RangeError when its two buffers differ in
\* byte length.
TimingSafeEqualThrows(a, b) == Len(a) # Len(b)

\* Mutant: the buffers are handed to timingSafeEqual without the length test.
KeyCompareThrows_noLengthTest(token, validApiKey) ==
  TimingSafeEqualThrows(BufferFrom(token), BufferFrom(validApiKey))

\* Whether the comparison throws: || evaluates timingSafeEqual only when the
\* lengths are the same.
KeyCompareThrows(token, validApiKey) ==
  LET providedKey == BufferFrom(token)
      expectedKey == BufferFrom(validApiKey)
  IN  /\ Len(providedKey) = Len(expectedKey)
      /\ TimingSafeEqualThrows(providedKey, expectedKey)

\* Mutant: the decision of the superseded minimal middleware (auth.js:1-8),
\* token === process.env.API_KEY.
VerifyKey_minimal(token, validApiKey) ==
  IF token = validApiKey
  THEN [status |-> 0, error |-> "", reason |-> ""]
  ELSE [status |-> 403, error |-> "Unauthorized", reason |-> ""]

\* The decision of the enhanced middleware once the rate limiter has allowed
\* the request: status 0 stands for "call next()".  The assignment to
\* module.exports at auth.js:71 replaces the one at auth.js:1, so this is the
\* middleware the routers get from require('../middleware/auth').  reason is
\* what the branch passes to logAuthAttempt.  What the comparison throws is
\* caught at auth.js:160 and answered 500 'Internal Server Error'.
VerifyKey(token, validApiKey) ==
  IF ~Truthy(token)
  THEN [status |-> 401, error |-> "Authentication Required",
        reason |-> "Missing API key"]
  ELSE IF ~Truthy(validApiKey)
  THEN [status |-> 500, error |-> "Server Configuration Error",
        reason |-> "Server configuration error"]
  ELSE IF KeyCompareThrows(token.val, validApiKey.val)
  THEN [status |-> 500, error |-> "Internal Server Error",
        reason |-> "Internal error"]
  ELSE IF KeyMismatch(token.val, validApiKey.val)
  THEN [status |-> 403, error |-> "Invalid API Key", reason |-> "Invalid API key"]
  ELSE [status |-> 0, error |-> "", reason |-> ""]

\* ------------------------------------------------------------ state
\* A client's latest rate-limit result: when it was computed (at, -1 when the
\* client has made no call) and the resetTime of the client's latest denial
\* (deniedReset, -1 when it has never been denied).
NoResult == [allowed |-> FALSE, remaining |-> -1, resetTime |-> -1, at |-> -1,
             deniedReset |-> -1]

NoStreak == [n |-> 0, start |-> 0]

\* The X-RateLimit-* response headers, -1 while they are not set.
NoHeaders == [limit |-> -1, remaining |-> -1, reset |-> -1]

\* Mutant: X-RateLimit-Remaining is not taken from the result.
RateLimitHeaders_fullQuota(result) ==
  [limit |-> RATE_LIMIT_MAX_REQUESTS, remaining |-> RATE_LIMIT_MAX_REQUESTS,
   reset |-> result.resetTime]

\* res.set({'X-RateLimit-Limit': ..., 'X-RateLimit-Remaining': ...,
\*          'X-RateLimit-Reset': ...})
RateLimitHeaders(result) ==
  [limit |-> RATE_LIMIT_MAX_REQUESTS, remaining |-> result.remaining,
   reset |-> result.resetTime]

\* req.auth, unset until the gate has authenticated the request; requestId
\* tells that a crypto.randomUUID() is stored, userAgent is left out.
NoAuth == [set |-> FALSE, clientId |-> "", authenticatedAt |-> -1,
           requestId |-> FALSE]

\* logAuthAttempt(clientId, success, reason): one more line on the console.
logAuthAttempt(log, clientId, success, reason) ==
  Append(log, [clientId |-> clientId, success |-> success, reason |-> reason])

\* Mutant: the response is sent without the audit line.
Reject_silent(r, status, error, reason) ==
  [r EXCEPT !.auditAtSend = Len(r.audit), !.status = status, !.error = error,
            !.by = "gate"]

\* logAuthAttempt(clientId, false, reason); return res.status(status).json(...):
\* auditAtSend is the number of audit lines written when the response is sent.
Reject(r, status, error, reason) ==
  LET log == logAuthAttempt(r.audit, r.clientId, FALSE, reason)
  IN  [r EXCEPT !.audit = log, !.auditAtSend = Len(log), !.status = status,
                !.error = error, !.by = "gate"]

\* History: the times of the latest requests of each client that the key
\* verification rejected, kept when on is set (the program keeps no such
\* list).
NoRejectLog(on) == [on |-> on, log |-> [c \in ClientIds |-> <<>>]]

\* The latest RATE_LIMIT_MAX_REQUESTS of them.
LastRejections(s) ==
  IF Len(s) <= RATE_LIMIT_MAX_REQUESTS THEN s
  ELSE SubSeq(s, Len(s) - RATE_LIMIT_MAX_REQUESTS + 1, Len(s))

\* The request in flight and its response.
NoReq == [route |-> "", pos |-> 0, clientId |-> "", rl |-> NoResult,
          before |-> NoEntry, prev |-> NoResult, token |-> Undefined,
          verified |-> FALSE, status |-> 0, error |-> "", retryAfter |-> 0,
          handled |-> FALSE, headers |-> NoHeaders, xRequestId |-> FALSE,
          auth |-> NoAuth, audit |-> <<>>, auditAtSend |-> -1, by |-> "",
          finishHook |-> FALSE, completionLines |-> 0]

\* ------------------------------------------------ department analytics
\* A query parameter: absent, or given with a value.
Absent == <<>>

Given(v) == <<v>>

\* The departments the router starts with.  A date is the number of its day
\* since 1970-01-01: new Date('2020-01-01') is day 18262.
departments ==
  <<[id |-> 1, budget |-> 2500000, employeeCount |-> 25, established |-> 18262],
    [id |-> 2, budget |-> 1200000, employeeCount |-> 8, established |-> 18701],
    [id |-> 3, budget |-> 800000, employeeCount |-> 12, established |-> 18414]>>

BudgetTierParams == {Absent, Given("enterprise"), Given("growth"), Given("startup")}

TeamCategoryParams == {Absent, Given("large"), Given("medium"), Given("small")}

\* 2020-01-01 and 2021-01-01.
StartDateParams == {Absent, Given(18262), Given(18628)}

\* 2021-01-01 and 2023-12-31.
EndDateParams == {Absent, Given(18628), Given(19722)}

\* new Date() of the handler: 2026-01-01 and 2026-05-01.
AnalyticsDays == {20454, 20574}

Queries ==
  [budgetTier : BudgetTierParams, teamCategory : TeamCategoryParams,
   startDate : StartDateParams, endDate : EndDateParams]

NoQuery == [budgetTier |-> Absent, teamCategory |-> Absent,
            startDate |-> Absent, endDate |-> Absent]

\* Math.round(a / b) for a >= 0, b > 0.
MathRound(a, b) == (2 * a + b) \div (2 * b)

budgetTier(dept) ==
  IF dept.budget > 2000000 THEN "enterprise"
  ELSE IF dept.budget > 1000000 THEN "growth" ELSE "startup"

teamCategory(dept) ==
  IF dept.employeeCount > 20 THEN "large"
  ELSE IF dept.employeeCount > 10 THEN "medium" ELSE "small"

ageInYears(dept, today) == (today - dept.established) \div DaysPerYear

performanceScore(dept, today) ==
  MathRound(dept.budget * BudgetScorePerMillion, 1000000)
    + dept.employeeCount * 2 + ageInYears(dept, today) * 5

Null == [null |-> TRUE]

\* The callback of departments.map: null for a department outside the date
\* range, else its metrics.
DepartmentMetric(dept, q, today) ==
  IF q.startDate # Absent /\ dept.established < q.startDate[1] THEN Null
  ELSE IF q.endDate # Absent /\ dept.established > q.endDate[1] THEN Null
  ELSE [id |-> dept.id, performanceScore |-> performanceScore(dept, today),
        budgetTier |-> budgetTier(dept), teamCategory |-> teamCategory(dept)]

RECURSIVE SortByScore(_)
\* Array.prototype.sort by descending performanceScore (the sort is stable).
SortByScore(s) ==
  IF s = <<>> THEN <<>>
  ELSE LET rest == SortByScore(Tail(s))
           ahead == SelectSeq(rest, LAMBDA d :
                      d.performanceScore > Head(s).performanceScore)
           behind == SelectSeq(rest, LAMBDA d :
                       d.performanceScore <= Head(s).performanceScore)
       IN  ahead \o <<Head(s)>> \o behind

\* departmentMetrics is declared const: the assignment that would apply the
\* budgetTier or the teamCategory filter throws a TypeError.
AssignsConst(q) == q.budgetTier # Absent \/ q.teamCategory # Absent

\* The handler of GET /effectiveness/analytics; its catch answers 500.
effectivenessAnalytics(q, today) ==
  LET mapped == [i \in 1..Len(departments) |->
                   DepartmentMetric(departments[i], q, today)]
      departmentMetrics == SelectSeq(mapped, LAMBDA d : d # Null)
  IN  IF AssignsConst(q)
      THEN [status |-> 500, success |-> FALSE,
            error |-> "Internal server error while generating performance metrics",
            departments |-> <<>>]
      ELSE [status |-> 200, success |-> TRUE, error |-> "",
            departments |-> SortByScore(departmentMetrics)]

NoResponse == [status |-> 0, success |-> FALSE, error |-> "", departments |-> <<>>]

NoAnalytics == [pc |-> "idle", query |-> NoQuery, today |-> 0,
                response |-> NoResponse]

\* ------------------------------------------- concurrent rate-limit checks
\* Requests of one client, all in flight at once.
CallIds == 1..NCalls

ConcClient == CHOOSE c \in ClientIds : TRUE

NoCall == [at |-> "queued", now |-> 0, obj |-> 0, result |-> NoResult]

\* The client's entry of requestStore refers to an object of the heap;
\* object 0 is the one stored at the start, object i the one call i makes
\* when it finds no entry.  The entry at the start is that of k earlier
\* requests at time 0.
ConcInit(k) ==
  [clock |-> 0,
   initial |-> [j \in 1..k |-> 0],
   heap |-> [o \in 0..NCalls |-> IF o = 0 THEN [j \in 1..k |-> 0] ELSE <<>>],
   ref |-> [present |-> k > 0, obj |-> 0],
   calls |-> [i \in CallIds |-> NoCall],
   running |-> 0]

\* Mutant: a call may be suspended between two of its statements.
MayRun_preemptive(i) == TRUE

\* checkRateLimit and the middleware that calls it are synchronous: once a
\* call has started no other runs until it has returned.
MayRun(i) == conc.running \in {0, i}

\* ------------------------------------------------------------ employees
\* Strings are sequences of characters here.  The e-mail addresses of the
\* three employees the router starts with, shortened, one more, and a
\* string that is not an address.
Alice == <<"a", "@", "c", ".", "o">>

Bob == <<"b", "@", "c", ".", "o">>

Carol == <<"c", "@", "c", ".", "o">>

Dave == <<"d", "@", "c", ".", "o">>

NotAnEmail == <<"d", "@", "c">>

\* req.body.email: <<>> is an absent (or empty) field.
EmailInputs == {<<>>, Alice, Bob, Dave, NotAnEmail}

\* req.body.status: "" is an absent field.
StatusInputs == {"", "active", "inactive"}

\* [^\s@]+
NoSpaceNoAt(str) ==
  str # <<>> /\ \A i \in 1..Len(str) : str[i] \notin {" ", "@"}

\* /^[^\s@]+@[^\s@]+\.[^\s@]+$/.test(email)
emailRegexTest(email) ==
  \E i, j \in 1..Len(email) :
    /\ i < j /\ email[i] = "@" /\ email[j] = "."
    /\ NoSpaceNoAt(SubSeq(email, 1, i - 1))
    /\ NoSpaceNoAt(SubSeq(email, i + 1, j - 1))
    /\ NoSpaceNoAt(SubSeq(email, j + 1, Len(email)))

\* The employees array when the module is loaded; status is the status of
\* the last response of the router.
InitStaff ==
  [employees |-> <<[id |-> 1, email |-> Alice, status |-> "active"],
                   [id |-> 2, email |-> Bob, status |-> "active"],
                   [id |-> 3, email |-> Carol, status |-> "active"]>>,
   status |-> 0]

\* employees.findIndex((emp) => emp.id === employeeId): 0 for -1.
findIndex(employees, employeeId) ==
  IF \E i \in 1..Len(employees) : employees[i].id = employeeId
  THEN CHOOSE i \in 1..Len(employees) :
         /\ employees[i].id = employeeId
         /\ \A j \in 1..(i - 1) : employees[j].id # employeeId
  ELSE 0

\* Math.max(...employees.map((emp) => emp.id))
MaxId(employees) ==
  CHOOSE m \in {employees[i].id : i \in 1..Len(employees)} :
    \A i \in 1..Len(employees) : employees[i].id <= m

\* The state after the modules are loaded, whatever the application and
\* whether or not the timestamps of the allowed calls are recorded
\* (allowedLog is history, the program keeps no such list).
InitAny ==
  /\ now = 0
  /\ API_KEY \in ApiKeys
  /\ app \in Apps
  /\ recording \in BOOLEAN
  /\ requestStore = [c \in ClientIds |-> NoEntry]
  /\ pc = "idle"
  /\ req = NoReq
  /\ lastResult = [c \in ClientIds |-> NoResult]
  /\ streak = [c \in ClientIds |-> NoStreak]
  /\ allowedLog = [c \in ClientIds |-> <<>>]
  /\ rejectLog \in {NoRejectLog(on) : on \in BOOLEAN}

\* No analytics request and no concurrent call is under way.
Quiet == analytics = NoAnalytics /\ conc = ConcInit(0) /\ staff = InitStaff

InitApps == InitAny /\ ~recording /\ ~rejectLog.on /\ Quiet

\* The enterprise application, the one that mounts every route.
Init == InitApps /\ app = "enterprise"

\* The same, with a key configured and the allowed calls recorded.
InitRecording ==
  /\ InitAny /\ recording /\ app = "enterprise" /\ API_KEY = Str(<<97, 98>>)
  /\ ~rejectLog.on
  /\ Quiet

\* The same, the requests rejected by the key verification recorded instead.
InitRejections ==
  /\ InitAny /\ ~recording /\ app = "enterprise" /\ API_KEY = Str(<<97, 98>>)
  /\ rejectLog.on
  /\ Quiet

\* The enterprise application with a key configured.
InitAnalytics == Init /\ API_KEY = Str(<<97, 98>>)

\* The same, the client's window holding what earlier requests left.
InitConcurrent ==
  /\ InitAny /\ ~recording /\ app = "enterprise" /\ API_KEY = Str(<<97, 98>>)
  /\ ~rejectLog.on
  /\ analytics = NoAnalytics /\ staff = InitStaff
  /\ \E k \in 0..RATE_LIMIT_MAX_REQUESTS : conc = ConcInit(k)

\* Date.now() advances.
Tick ==
  /\ now < MaxTime
  /\ \E t \in (now + 1)..MaxTime : now' = t
  /\ UNCHANGED <<API_KEY, app, requestStore, pc, req, lastResult, streak,
                 analytics, conc, staff, recording, allowedLog,
                 rejectLog>>

\* A request for a mounted route r arrives, with or without an x-api-key
\* header; the application's own middleware runs, then express calls the
\* first callback the route registered.
Arrive(r, token) ==
  /\ pc = "idle"
  /\ r \in Mounted(app)
  /\ req' = [NoReq EXCEPT !.route = r, !.pos = 1, !.token = token,
                          !.xRequestId = SetsRequestIdHeader(app)]
  /\ pc' = RouteStack(r)[1]
  /\ UNCHANGED <<now, API_KEY, app, requestStore, lastResult, streak,
                 analytics, conc, staff, recording, allowedLog,
                 rejectLog>>

\* History of a client's calls: how many calls it has made since (and
\* including) the last one that found its window empty, and when that was.
NextStreak(s, kept, t) ==
  IF kept = <<>> THEN [n |-> 1, start |-> t]
  ELSE IF s.n = 0 THEN s
  ELSE [s EXCEPT !.n = IF s.n > RATE_LIMIT_MAX_REQUESTS THEN s.n ELSE s.n + 1]

\* Mutant: the 429 branch does not return.
RateLimitBranch_fallsThrough(result) == "verify"

\* if (!rateLimitResult.allowed) return res.status(429)...: where the
\* middleware goes after the rate-limit check.
RateLimitBranch(result) == IF result.allowed THEN "verify" ELSE "limited"

\* auth.js:72-76: getClientId(req) is called before the try block; what it
\* throws goes to the caller of the middleware.
AuthClientIdThrows(peer) ==
  /\ pc = "auth"
  /\ getClientId(peer) = Thrown
  /\ pc' = "thrown"
  /\ UNCHANGED <<now, API_KEY, app, requestStore, req, lastResult, streak,
                 analytics, conc, staff, recording, allowedLog,
                 rejectLog>>

\* The exception is the caller's to deal with; the gate has sent nothing.
CallerCatches ==
  /\ pc = "thrown"
  /\ req' = NoReq
  /\ pc' = "idle"
  /\ UNCHANGED <<now, API_KEY, app, requestStore, lastResult, streak,
                 analytics, conc, staff, recording, allowedLog,
                 rejectLog>>

\* auth.js:72-89: the client id (req.ip is read from the connection here),
\* the rate-limit check, the rate-limit headers.
AuthRateLimit(peer) ==
  /\ pc = "auth"
  /\ getClientId(peer) # Thrown
  /\ LET clientId == getClientId(peer)
         out == checkRateLimit(requestStore, clientId, now)
         kept == filterRequests(requestStore[clientId].requests, now)
     IN  /\ requestStore' = out.store
         /\ allowedLog' = IF recording /\ out.result.allowed
                          THEN [allowedLog EXCEPT ![clientId] = Append(@, now)]
                          ELSE allowedLog
         /\ req' = [req EXCEPT !.clientId = clientId,
                               !.headers = RateLimitHeaders(out.result),
                               !.rl = [allowed |-> out.result.allowed,
                                       remaining |-> out.result.remaining,
                                       resetTime |-> out.result.resetTime,
                                       at |-> now,
                                       deniedReset |->
                                         IF out.result.allowed
                                         THEN lastResult[clientId].deniedReset
                                         ELSE out.result.resetTime],
                               !.before = requestStore[clientId],
                               !.prev = lastResult[clientId]]
         /\ lastResult' = [lastResult EXCEPT ![clientId] = req'.rl]
         /\ streak' = [streak EXCEPT ![clientId] = NextStreak(@, kept, now)]
         /\ pc' = RateLimitBranch(out.result)
  /\ UNCHANGED <<now, API_KEY, app, analytics, conc, staff, recording, rejectLog>>

\* auth.js:90-96: the 429 response; Date.now() is read again for retryAfter.
AuthTooManyRequests ==
  /\ pc = "limited"
  /\ req' = [Reject(req, 429, "Too Many Requests", "Rate limit exceeded")
               EXCEPT !.retryAfter = MathCeilDiv(req.rl.resetTime - now, MsPerSecond)]
  /\ pc' = "done"
  /\ UNCHANGED <<now, API_KEY, app, requestStore, lastResult, streak,
                 analytics, conc, staff, recording, allowedLog,
                 rejectLog>>

\* auth.js:99-159: the key verification; on success the audit line, req.auth
\* and the 'finish' listener, then next() hands the request to the callback
\* registered after the gate.
AuthVerify ==
  /\ pc = "verify"
  /\ LET d == VerifyKey(req.token, API_KEY)
     IN  IF d.status = 0
         THEN /\ req' = [req EXCEPT
                           !.verified = TRUE,
                           !.audit = logAuthAttempt(@, req.clientId, TRUE, ""),
                           !.auth = [set |-> TRUE, clientId |-> req.clientId,
                                     authenticatedAt |-> now, requestId |-> TRUE],
                           !.finishHook = TRUE,
                           !.pos = req.pos + 1]
              /\ pc' = RouteStack(req.route)[req.pos + 1]
              /\ UNCHANGED rejectLog
         ELSE /\ req' = [Reject(req, d.status, d.error, d.reason)
                           EXCEPT !.verified = TRUE]
              /\ pc' = "done"
              /\ rejectLog' = IF rejectLog.on
                              THEN [rejectLog EXCEPT !.log[req.clientId] =
                                      LastRejections(Append(@, req.rl.at))]
                              ELSE rejectLog
  /\ UNCHANGED <<now, API_KEY, app, requestStore, lastResult, streak,
                 analytics, conc, staff, recording, allowedLog>>

\* The route handler runs and answers.
Handler ==
  /\ pc = "handler"
  /\ req' = [req EXCEPT !.handled = TRUE, !.status = 200, !.by = "handler"]
  /\ pc' = "done"
  /\ UNCHANGED <<now, API_KEY, app, requestStore, lastResult, streak,
                 analytics, conc, staff, recording, allowedLog,
                 rejectLog>>

\* The response has been sent: res emits 'finish', and the listener the gate
\* registered, if it did, logs the completion line.
ResponseFinish ==
  /\ pc = "done"
  /\ req' = [req EXCEPT !.completionLines = IF req.finishHook THEN 1 ELSE 0]
  /\ pc' = "finished"
  /\ UNCHANGED <<now, API_KEY, app, requestStore, lastResult, streak,
                 analytics, conc, staff, recording, allowedLog,
                 rejectLog>>

\* The server is ready for the next request.
Finish ==
  /\ pc = "finished"
  /\ pc' = "idle"
  /\ req' = NoReq
  /\ UNCHANGED <<now, API_KEY, app, requestStore, lastResult, streak,
                 analytics, conc, staff, recording, allowedLog,
                 rejectLog>>

Next ==
  \/ Tick
  \/ \E r \in SampleRoutes, token \in SampleTokens : Arrive(r, token)
  \/ \E peer \in Peers : AuthClientIdThrows(peer)
  \/ CallerCatches
  \/ \E peer \in Peers : AuthRateLimit(peer)
  \/ AuthTooManyRequests
  \/ AuthVerify
  \/ Handler
  \/ ResponseFinish
  \/ Finish

Spec == Init /\ [][Next]_vars

SpecRecording == InitRecording /\ [][Next]_vars

\* The requests of one client, and the request object that has no
\* connection.
SamplePeers == {peer \in Peers : peer.ip # "" \/ ~peer.connection}

NextOneClient ==
  \/ Tick
  \/ \E r \in SampleRoutes, token \in SampleTokens : Arrive(r, token)
  \/ \E peer \in SamplePeers : AuthClientIdThrows(peer)
  \/ CallerCatches
  \/ \E peer \in SamplePeers : AuthRateLimit(peer)
  \/ AuthTooManyRequests
  \/ AuthVerify
  \/ Handler
  \/ ResponseFinish
  \/ Finish

SpecRejections == InitRejections /\ [][NextOneClient]_vars

\* Requests for every route of the application and with every header value,
\* all within one millisecond.
NextInstant ==
  \/ \E r \in Routes, token \in Tokens : Arrive(r, token)
  \/ \E peer \in Peers : AuthClientIdThrows(peer)
  \/ CallerCatches
  \/ \E peer \in Peers : AuthRateLimit(peer)
  \/ AuthTooManyRequests
  \/ AuthVerify
  \/ Handler
  \/ ResponseFinish
  \/ Finish

SpecInstant == Init /\ [][NextInstant]_vars

\* The same requests to either application.
SpecApps == InitApps /\ [][NextInstant]_vars

\* ---------------------------------------------- analytics: the handler
\* An authenticated GET /api/departments/effectiveness/analytics is answered.
EffectivenessAnalytics(q, today) ==
  /\ analytics.pc = "idle"
  /\ analytics' = [pc |-> "answered", query |-> q, today |-> today,
                   response |-> effectivenessAnalytics(q, today)]
  /\ UNCHANGED <<gateVars, conc, staff>>

AnalyticsFinish ==
  /\ analytics.pc = "answered"
  /\ analytics' = NoAnalytics
  /\ UNCHANGED <<gateVars, conc, staff>>

NextAnalytics ==
  \/ \E q \in Queries, today \in AnalyticsDays : EffectivenessAnalytics(q, today)
  \/ AnalyticsFinish

SpecAnalytics == InitAnalytics /\ [][NextAnalytics]_vars

\* ----------------------------- concurrent calls: checkRateLimit by statement
ConcTick ==
  /\ conc.clock < MaxTime
  /\ conc' = [conc EXCEPT !.clock = @ + 1]
  /\ UNCHANGED <<gateVars, analytics, staff>>

\* const now = Date.now(); requestStore.get(clientId) || { requests: [] }
ConcGet(i) ==
  /\ MayRun(i)
  /\ conc.calls[i].at = "queued"
  /\ conc' = [conc EXCEPT
       !.running = i,
       !.calls[i] = [@ EXCEPT !.at = "got", !.now = conc.clock,
                              !.obj = IF conc.ref.present THEN conc.ref.obj ELSE i]]
  /\ UNCHANGED <<gateVars, analytics, staff>>

\* clientData.requests = clientData.requests.filter(...)
ConcFilter(i) ==
  /\ MayRun(i)
  /\ conc.calls[i].at = "got"
  /\ conc' = [conc EXCEPT
       !.heap[conc.calls[i].obj] = filterRequests(@, conc.calls[i].now),
       !.calls[i].at = "filtered"]
  /\ UNCHANGED <<gateVars, analytics, staff>>

\* The limit is reached: the call returns the denial.
ConcDenied(i) ==
  /\ MayRun(i)
  /\ conc.calls[i].at = "filtered"
  /\ LimitExceeded(Len(conc.heap[conc.calls[i].obj]))
  /\ conc' = [conc EXCEPT
       !.running = 0,
       !.calls[i] = [@ EXCEPT !.at = "done",
                       !.result = DeniedResult(conc.heap[conc.calls[i].obj])]]
  /\ UNCHANGED <<gateVars, analytics, staff>>

\* clientData.requests.push(now); requestStore.set(clientId, clientData)
ConcRecord(i) ==
  /\ MayRun(i)
  /\ conc.calls[i].at = "filtered"
  /\ ~LimitExceeded(Len(conc.heap[conc.calls[i].obj]))
  /\ LET o == conc.calls[i].obj
         requests == Append(conc.heap[o], conc.calls[i].now)
     IN  conc' = [conc EXCEPT
           !.running = 0,
           !.heap[o] = requests,
           !.ref = [present |-> TRUE, obj |-> o],
           !.calls[i] = [@ EXCEPT !.at = "done",
                           !.result = AllowedResult(requests, conc.calls[i].now)]]
  /\ UNCHANGED <<gateVars, analytics, staff>>

NextConcurrent ==
  \/ ConcTick
  \/ \E i \in CallIds : ConcGet(i)
  \/ \E i \in CallIds : ConcFilter(i)
  \/ \E i \in CallIds : ConcDenied(i)
  \/ \E i \in CallIds : ConcRecord(i)

SpecConcurrent == InitConcurrent /\ [][NextConcurrent]_vars

\* ------------------------------------------------ employees: the handlers
\* POST /onboard of an authenticated request; complete tells that name, role
\* and department are given.
Onboard(email, complete) ==
  /\ Len(staff.employees) < MaxEmployees
  /\ staff' =
       IF ~complete \/ email = <<>> THEN [staff EXCEPT !.status = 400]
       ELSE IF ~emailRegexTest(email) THEN [staff EXCEPT !.status = 400]
       ELSE IF \E i \in 1..Len(staff.employees) : staff.employees[i].email = email
       THEN [staff EXCEPT !.status = 409]
       ELSE [employees |-> Append(staff.employees,
                                  [id |-> MaxId(staff.employees) + 1,
                                   email |-> email, status |-> "active"]),
             status |-> 201]
  /\ UNCHANGED <<gateVars, analytics, conc>>

\* PUT /modify/:id of an authenticated request.
Modify(employeeId, email, status) ==
  /\ LET employeeIndex == findIndex(staff.employees, employeeId)
         updatedEmployee ==
           [staff.employees[employeeIndex] EXCEPT
              !.email = IF email # <<>> THEN email ELSE @,
              !.status = IF status # "" THEN status ELSE @]
     IN  staff' =
           IF employeeIndex = 0 THEN [staff EXCEPT !.status = 404]
           ELSE IF email # <<>> /\ ~emailRegexTest(email)
           THEN [staff EXCEPT !.status = 400]
           ELSE [employees |-> [staff.employees EXCEPT
                                  ![employeeIndex] = updatedEmployee],
                 status |-> 200]
  /\ UNCHANGED <<gateVars, analytics, conc>>

\* DELETE /deactivate/:id of an authenticated request: a soft delete.
Deactivate(employeeId) ==
  /\ LET employeeIndex == findIndex(staff.employees, employeeId)
     IN  staff' =
           IF employeeIndex = 0 THEN [staff EXCEPT !.status = 404]
           ELSE [employees |-> [staff.employees EXCEPT
                                  ![employeeIndex].status = "inactive"],
                 status |-> 200]
  /\ UNCHANGED <<gateVars, analytics, conc>>

NextStaffing ==
  \/ \E email \in EmailInputs, complete \in BOOLEAN : Onboard(email, complete)
  \/ \E employeeId \in 0..MaxEmployees, email \in EmailInputs,
        status \in StatusInputs : Modify(employeeId, email, status)
  \/ \E employeeId \in 0..MaxEmployees : Deactivate(employeeId)

SpecStaffing == InitAnalytics /\ [][NextStaffing]_vars

\* ------------------------------------------------------------ properties
\* The rate limiter has run for the request in flight.
Checked == req.rl.at >= 0

Denied == Checked /\ ~req.rl.allowed

\* The client's previous call was denied.
PrevDenied == req.prev.at >= 0 /\ ~req.prev.allowed

\* The gate's decision for the request in flight is Allowed: the rate limiter
\* passed it, the key verifier ran, a key is configured, a key was provided
\* and the two are the same string.
GateAllowed ==
  /\ Checked /\ req.rl.allowed
  /\ req.verified
  /\ Truthy(API_KEY) /\ Truthy(req.token)
  /\ req.token.val = API_KEY.val

\* The gate has handed the request to the route handler.
PassedOn == pc = "handler" \/ req.handled

Gated == req.route \in BusinessRoutes

\* The response of the request in flight has been sent.
Answered == pc \in {"done", "finished"}

\* The request in flight is the k-th of a run of calls of its client that
\* began with an empty window, k <= RATE_LIMIT_MAX_REQUESTS, all of them
\* within one RATE_LIMIT_WINDOW.
InFirstQuota ==
  /\ Checked
  /\ streak[req.clientId].n >= 1
  /\ streak[req.clientId].n <= RATE_LIMIT_MAX_REQUESTS
  /\ req.rl.at - streak[req.clientId].start < RATE_LIMIT_WINDOW

\* C1: starting from an empty window, each of RATE_LIMIT_MAX_REQUESTS
\* consecutive calls of a client within one window is allowed, its remaining
\* is below that of the call before it, and the last one's remaining is 0.
C1_QuotaAllowedRemainingDecreases ==
  InFirstQuota =>
    /\ req.rl.allowed
    /\ streak[req.clientId].n > 1 => req.rl.remaining < req.prev.remaining
    /\ streak[req.clientId].n = RATE_LIMIT_MAX_REQUESTS => req.rl.remaining = 0

\* The last call of the quota, made later than the first one.
C1_Witness ==
  /\ InFirstQuota
  /\ streak[req.clientId].n = RATE_LIMIT_MAX_REQUESTS
  /\ req.rl.at > streak[req.clientId].start
  /\ req.rl.remaining = 0

\* C2: a denied call leaves the client's stored window as it was, and a
\* call repeated at the same instant as a denied one is denied with the
\* same resetTime.
C2_DenialLeavesWindow ==
  /\ Denied => requestStore[req.clientId] = req.before
  /\ (Checked /\ PrevDenied /\ req.prev.at = req.rl.at) =>
       ~req.rl.allowed /\ req.rl.resetTime = req.prev.resetTime

\* A denial repeated at the instant of the denial before it, on a window
\* whose timestamps differ.
C2_Witness ==
  /\ Denied /\ PrevDenied /\ req.prev.at = req.rl.at
  /\ requestStore[req.clientId].requests[1] # req.rl.at

\* C3 as stated: whenever a client that was once denied with resetTime R
\* calls later than R, it is allowed.
C3_AnyCallAfterResetAllowed ==
  (Checked /\ req.prev.deniedReset >= 0 /\ req.rl.at > req.prev.deniedReset)
    => req.rl.allowed

\* C3 amended: the first call a client makes at or after the resetTime of
\* its denial is allowed.
C3_FirstCallAfterResetAllowed ==
  (Checked /\ PrevDenied /\ req.rl.at >= req.prev.resetTime) => req.rl.allowed

\* A call allowed at the very resetTime of the denial before it.
C3_Witness ==
  /\ Checked /\ PrevDenied /\ req.rl.at = req.prev.resetTime /\ req.rl.allowed

\* C4: the handler of a route behind the gate is invoked if and only if the
\* gate's decision is Allowed; a request answered 429, 401, 403 or 500 by
\* the gate is finished and its handler is not invoked.
C4_HandlerIffAllowed ==
  Gated =>
    /\ PassedOn => GateAllowed
    /\ (GateAllowed /\ Answered) => req.handled
    /\ req.status \in {429, 401, 403, 500} => (Answered /\ ~req.handled)

\* A handler behind the gate has run.
C4_Witness == Gated /\ req.handled /\ GateAllowed

\* C5: the handler of every route under /api/employees and /api/departments
\* runs only for a request the gate has allowed with the configured key.
C5_BusinessRoutesGuarded ==
  \A r \in BusinessRoutes :
    (req.route = r /\ PassedOn) =>
      /\ Checked /\ req.rl.allowed
      /\ req.verified /\ Truthy(API_KEY) /\ req.token = API_KEY

\* A department handler has run.
C5_Witness ==
  /\ req.route = "GET /api/departments/effectiveness/analytics"
  /\ req.handled

\* C6: with no API_KEY configured, every request that reaches the key
\* verification is answered 500 "Server Configuration Error".
C6_Unconfigured500 ==
  (req.verified /\ ~Truthy(API_KEY)) =>
    req.status = 500 /\ req.error = "Server Configuration Error"

\* C7: while API_KEY is absent or empty no request passes the gate, with or
\* without an x-api-key header.
C7_FailsClosed ==
  (~Truthy(API_KEY) /\ Gated) =>
    /\ ~PassedOn
    /\ req.verified => req.status \in {401, 500}

\* A request without the header was refused while no key was configured.
C7_Witness ==
  /\ ~API_KEY.set /\ Gated /\ req.verified /\ ~req.token.set /\ pc = "done"

\* C8: the key verification allows a provided key equal to a non-empty
\* configured key, answers 403 when both are non-empty and differ, 401 when
\* none is provided and a key is configured, 500 when one is provided and
\* none is configured.
C8_VerifyOutcomes ==
  req.verified =>
    /\ (Truthy(req.token) /\ Truthy(API_KEY) /\ req.token.val = API_KEY.val)
         => (PassedOn /\ req.status \in {0, 200})
    /\ (Truthy(req.token) /\ Truthy(API_KEY) /\ req.token.val # API_KEY.val)
         => (req.status = 403 /\ ~PassedOn)
    /\ (~Truthy(req.token) /\ Truthy(API_KEY)) => (req.status = 401 /\ ~PassedOn)
    /\ (Truthy(req.token) /\ ~Truthy(API_KEY)) => (req.status = 500 /\ ~PassedOn)

\* A key of the configured key's length that differs from it in its last
\* character was refused.
C8_Witness ==
  /\ req.verified /\ req.status = 403
  /\ Truthy(API_KEY) /\ Len(req.token.val) = Len(API_KEY.val)
  /\ req.token.val[1] = API_KEY.val[1]

\* C9: the key verifier runs only after the rate limiter has run and
\* allowed the request; a request the rate limiter denied is answered 429
\* whatever key it carries.
C9_RateLimitBeforeVerify ==
  /\ (pc = "verify" \/ req.verified) => (Checked /\ req.rl.allowed)
  /\ Denied => (~req.verified /\ ~PassedOn /\ (pc = "limited" \/ Answered))
  /\ (Denied /\ Answered) => req.status = 429

\* A request carrying the configured key was answered 429.
C9_Witness ==
  /\ Denied /\ req.status = 429 /\ Truthy(API_KEY) /\ req.token = API_KEY

\* C10: the retryAfter of every 429 response is at least one second.
C10_RetryAfterPositive == req.status = 429 => req.retryAfter >= 1

\* C11: every response sent after the rate limiter has run, whatever its
\* status, carries X-RateLimit-Limit, X-RateLimit-Remaining and
\* X-RateLimit-Reset as that request's rate-limit result gave them.
C11_RateLimitHeadersOnEveryResponse ==
  (Checked /\ req.status # 0) =>
    /\ req.headers.limit = RATE_LIMIT_MAX_REQUESTS
    /\ req.headers.remaining = req.rl.remaining
    /\ req.headers.reset = req.rl.resetTime

\* A 401 response that carries the headers of a first allowed call.
C11_Witness ==
  /\ Checked /\ req.status = 401
  /\ req.headers.remaining = RATE_LIMIT_MAX_REQUESTS - 1
  /\ req.headers.reset = req.rl.at + RATE_LIMIT_WINDOW

\* C12: the first request of a client with an empty window that carries the
\* configured key reaches the handler with req.auth holding clientId,
\* requestId and authenticatedAt, and its response carries X-Request-ID and
\* X-RateLimit-Remaining = RATE_LIMIT_MAX_REQUESTS - 1.
C12_FirstRequestWithKey ==
  (Gated /\ Answered /\ Checked /\ req.before.requests = <<>>
     /\ Truthy(API_KEY) /\ req.token = API_KEY) =>
    /\ req.handled
    /\ req.auth.set /\ req.auth.clientId = req.clientId
    /\ req.auth.requestId /\ req.auth.authenticatedAt >= 0
    /\ req.headers.remaining = RATE_LIMIT_MAX_REQUESTS - 1
    /\ req.xRequestId

\* C13: when the response of a request that entered the gate has finished,
\* exactly one completion line has been logged for it.
C13_OneCompletionLine == (pc = "finished" /\ Gated) => req.completionLines = 1

\* The reason logAuthAttempt is given for each rejection.
RejectionReason(status) ==
  CASE status = 429 -> "Rate limit exceeded"
    [] status = 401 -> "Missing API key"
    [] status = 403 -> "Invalid API key"
    [] OTHER -> "Server configuration error"

\* C14: a request rejected with 429, 401, 403 or 500 has exactly one failed
\* audit line, with its client id and the reason of the rejection, written
\* before the response was sent.
C14_OneAuditLineBeforeRejection ==
  req.status \in {429, 401, 403, 500} =>
    \E i \in 1..Len(req.audit) :
      /\ {j \in 1..Len(req.audit) : ~req.audit[j].success} = {i}
      /\ req.audit[i].clientId = req.clientId
      /\ req.audit[i].reason = RejectionReason(req.status)
      /\ i <= req.auditAtSend

\* A request with a wrong key was rejected and audited.
C14_Witness ==
  /\ req.status = 403 /\ Len(req.audit) = 1
  /\ req.audit[1].reason = "Invalid API key" /\ req.auditAtSend = 1

\* C15: no exception raised by a step of the gate leaves the gate.
C15_NoExceptionEscapes == pc # "thrown"

\* C17: a rate-limit check of one client leaves every other client's stored
\* window as it was, and its result is the one the check gives on a store
\* that holds the calling client's window alone.
C17_OtherClientsUntouched ==
  [][\A c \in ClientIds :
       (pc = "auth" /\ pc' \in {"verify", "limited"} /\ req'.clientId = c) =>
         /\ \A d \in ClientIds \ {c} : requestStore'[d] = requestStore[d]
         /\ LET alone == [d \in ClientIds |->
                            IF d = c THEN requestStore[c] ELSE NoEntry]
                r == checkRateLimit(alone, c, now).result
            IN  /\ req'.rl.allowed = r.allowed
                /\ req'.rl.remaining = r.remaining
                /\ req'.rl.resetTime = r.resetTime]_vars

\* A client was checked while another client's window held a timestamp a
\* whole window old.
C17_Witness ==
  /\ Checked
  /\ \E d \in ClientIds \ {req.clientId} :
       \E i \in 1..Len(requestStore[d].requests) :
         req.rl.at - requestStore[d].requests[i] >= RATE_LIMIT_WINDOW

\* The number of calls of client c allowed at a time in (t - window, t].
AllowedWithin(c, t) ==
  Cardinality({i \in 1..Len(allowedLog[c]) :
                 /\ allowedLog[c][i] > t - RATE_LIMIT_WINDOW
                 /\ allowedLog[c][i] <= t})

\* C20: with a clock that never goes back, for every client and every time
\* t at most RATE_LIMIT_MAX_REQUESTS of its calls were allowed at a time in
\* (t - RATE_LIMIT_WINDOW, t].
C20_AtMostMaxPerWindow ==
  \A c \in ClientIds : \A t \in 0..MaxTime :
    AllowedWithin(c, t) <= RATE_LIMIT_MAX_REQUESTS

\* A client that has been allowed more calls than the limit, the limit's
\* worth of them within one window.
C20_Witness ==
  \E c \in ClientIds :
    /\ Len(allowedLog[c]) > RATE_LIMIT_MAX_REQUESTS
    /\ \E t \in 0..MaxTime : AllowedWithin(c, t) = RATE_LIMIT_MAX_REQUESTS

\* Every call has returned.
ConcDone == \A i \in CallIds : conc.calls[i].at = "done"

\* The window stored for the client.
ConcStored ==
  [present |-> conc.ref.present,
   requests |-> IF conc.ref.present THEN conc.heap[conc.ref.obj] ELSE <<>>]

\* The orders in which the calls can be made one after the other.
Orders == {o \in [CallIds -> CallIds] : \A i, j \in CallIds : o[i] = o[j] => i = j}

RECURSIVE SequentialRun(_, _, _)
\* The calls order[k..] made one after the other on store, each at the time
\* it read: the store they leave and the result of each.
SequentialRun(order, k, store) ==
  IF k > NCalls THEN [store |-> store, results |-> [i \in {} |-> NoResult]]
  ELSE LET out == checkRateLimit(store, ConcClient, conc.calls[order[k]].now)
           rest == SequentialRun(order, k + 1, out.store)
       IN  [store |-> rest.store,
            results |-> [i \in DOMAIN rest.results \cup {order[k]} |->
                           IF i = order[k] THEN out.result ELSE rest.results[i]]]

\* The latest time a call read.
ConcLatest ==
  CHOOSE t \in {conc.calls[i].now : i \in CallIds} :
    \A i \in CallIds : conc.calls[i].now <= t

\* C16: when concurrent requests of one client have all been checked, the
\* stored window and every result are those of the checks made one after
\* the other in some order, and the window holds the timestamp of every
\* allowed request that is still within the window.
C16_ChecksSerializable ==
  ConcDone =>
    /\ \E order \in Orders :
         LET start == [c \in ClientIds |->
                         IF c = ConcClient
                         THEN [present |-> conc.initial # <<>>,
                               requests |-> conc.initial]
                         ELSE NoEntry]
             seq == SequentialRun(order, 1, start)
         IN  /\ seq.store[ConcClient] = ConcStored
             /\ \A i \in CallIds : seq.results[i] = conc.calls[i].result
    /\ Len(ConcStored.requests) =
         Cardinality({j \in 1..Len(conc.initial) :
                        ConcLatest - conc.initial[j] < RATE_LIMIT_WINDOW})
         + Cardinality({i \in CallIds :
                          /\ conc.calls[i].result.allowed
                          /\ ConcLatest - conc.calls[i].now < RATE_LIMIT_WINDOW})

\* Every request found no entry at the start, all were checked within the
\* same millisecond and more than one was allowed.
C16_Witness ==
  /\ ConcDone /\ conc.initial = <<>>
  /\ \A i \in CallIds : conc.calls[i].now = conc.clock
  /\ Cardinality({i \in CallIds : conc.calls[i].result.allowed}) > 1
  /\ Len(ConcStored.requests) > 1

\* C19: a request to the effectiveness analytics endpoint with budgetTier=T
\* alone (teamCategory=C alone) is answered with success and lists exactly
\* the departments whose budget tier is T (team category is C).
C19_FilterListsMatchingDepartments ==
  LET listed == {analytics.response.departments[i].id :
                   i \in 1..Len(analytics.response.departments)}
      all == {departments[i] : i \in 1..Len(departments)}
  IN  /\ \A T \in {"enterprise", "growth", "startup"} :
           (analytics.pc = "answered"
              /\ analytics.query = [NoQuery EXCEPT !.budgetTier = Given(T)]) =>
             /\ analytics.response.success
             /\ listed = {d.id : d \in {e \in all : budgetTier(e) = T}}
      /\ \A C \in {"large", "medium", "small"} :
           (analytics.pc = "answered"
              /\ analytics.query = [NoQuery EXCEPT !.teamCategory = Given(C)]) =>
             /\ analytics.response.success
             /\ listed = {d.id : d \in {e \in all : teamCategory(e) = C}}

\* The window the client of the request in flight had before the check, less
\* the timestamps a whole window old or older at the time of the check.
Surviving ==
  SelectSeq(req.before.requests,
            LAMBDA ts : req.rl.at - ts < RATE_LIMIT_WINDOW)

\* The window stored for the client of the request in flight.
WindowAfter == requestStore[req.clientId].requests

\* Of that window, what was there before the check.
WindowKept ==
  IF req.rl.allowed THEN SubSeq(WindowAfter, 1, Len(WindowAfter) - 1)
  ELSE WindowAfter

\* C21, as stated: a check prunes exactly the timestamps strictly older than
\* now - RATE_LIMIT_WINDOW; a timestamp exactly one window old survives.
C21_BoundaryTimestampSurvives ==
  Checked =>
    WindowKept = SelectSeq(req.before.requests,
                           LAMBDA ts : req.rl.at - ts <= RATE_LIMIT_WINDOW)

\* C21, amended: a check prunes exactly the timestamps that are one window
\* old or older (now - ts >= RATE_LIMIT_WINDOW); a timestamp exactly one
\* window old is pruned, and the surviving count is what the limit is
\* tested against.
C21_BoundaryTimestampPruned ==
  Checked =>
    /\ WindowKept = Surviving
    /\ \A i \in 1..Len(WindowKept) : req.rl.at - WindowKept[i] < RATE_LIMIT_WINDOW
    /\ req.rl.allowed <=> Len(Surviving) < RATE_LIMIT_MAX_REQUESTS

\* A check found a timestamp exactly one window old, and a younger one.
C21_Witness ==
  /\ Checked
  /\ \E i \in 1..Len(req.before.requests) :
       req.rl.at - req.before.requests[i] = RATE_LIMIT_WINDOW
  /\ Surviving # <<>>

\* C22: when fewer than RATE_LIMIT_MAX_REQUESTS timestamps survive, now is
\* appended as the last element of the window and the result is allowed,
\* remaining = RATE_LIMIT_MAX_REQUESTS - (n + 1), resetTime = now +
\* RATE_LIMIT_WINDOW.
C22_AllowedAppendsNow ==
  (Checked /\ Len(Surviving) < RATE_LIMIT_MAX_REQUESTS) =>
    /\ WindowAfter = Append(Surviving, req.rl.at)
    /\ req.rl.allowed
    /\ req.rl.remaining = RATE_LIMIT_MAX_REQUESTS - (Len(Surviving) + 1)
    /\ req.rl.resetTime = req.rl.at + RATE_LIMIT_WINDOW

\* A call allowed after an expired timestamp was pruned and a younger one
\* kept.
C22_Witness ==
  /\ Checked /\ req.rl.allowed
  /\ Len(Surviving) >= 1 /\ Len(Surviving) < Len(req.before.requests)
  /\ WindowAfter[Len(WindowAfter)] = req.rl.at

\* C23: when at least RATE_LIMIT_MAX_REQUESTS timestamps survive, the result
\* is denied, remaining = 0, resetTime = the smallest surviving timestamp +
\* RATE_LIMIT_WINDOW, and that resetTime is later than now.
C23_DeniedResetFromOldest ==
  (Checked /\ Len(Surviving) >= RATE_LIMIT_MAX_REQUESTS) =>
    /\ ~req.rl.allowed
    /\ req.rl.remaining = 0
    /\ \E i \in 1..Len(Surviving) :
         /\ \A j \in 1..Len(Surviving) : Surviving[i] <= Surviving[j]
         /\ req.rl.resetTime = Surviving[i] + RATE_LIMIT_WINDOW
    /\ req.rl.resetTime > req.rl.at

\* A denial whose surviving timestamps are not all the same.
C23_Witness ==
  /\ Denied
  /\ \E i, j \in 1..Len(Surviving) : Surviving[i] < Surviving[j]
  /\ req.rl.resetTime = req.rl.at + 1

\* C24: a call is denied only when the pruned window is not empty; a call of
\* a client with no timestamps, or with expired ones only, is allowed.
C24_NoDenialOnEmptyWindow ==
  Checked =>
    /\ ~req.rl.allowed => Surviving # <<>>
    /\ Surviving = <<>> => req.rl.allowed

\* A client whose timestamps had all expired was allowed.
C24_Witness ==
  /\ Checked /\ req.rl.allowed
  /\ req.before.requests # <<>> /\ Surviving = <<>>

\* C25: every stored window holds at most RATE_LIMIT_MAX_REQUESTS
\* timestamps, in non-decreasing order.
C25_WindowCappedAndOrdered ==
  \A c \in ClientIds :
    LET w == requestStore[c].requests
    IN  /\ Len(w) <= RATE_LIMIT_MAX_REQUESTS
        /\ \A i, j \in 1..Len(w) : i < j => w[i] <= w[j]

\* A full window with timestamps of different times.
C25_Witness ==
  \E c \in ClientIds :
    LET w == requestStore[c].requests
    IN  Len(w) = RATE_LIMIT_MAX_REQUESTS /\ w[1] < w[Len(w)]

\* C26: an entry of the store is created by a request of its client and is
\* never removed, and an entry changes only when a request of its client is
\* checked: stale timestamps stay until then.
C26_RegistryOnlyGrows ==
  [][\A c \in ClientIds :
       /\ requestStore[c].present => requestStore'[c].present
       /\ requestStore'[c] # requestStore[c] =>
            (pc = "auth" /\ req'.clientId = c)]_vars

\* A client's entry holds expired timestamps only while a request of another
\* client is answered.
C26_Witness ==
  /\ Answered /\ Checked
  /\ \E c \in ClientIds \ {req.clientId} :
       /\ requestStore[c].present
       /\ \A i \in 1..Len(requestStore[c].requests) :
            now - requestStore[c].requests[i] >= RATE_LIMIT_WINDOW

\* The number of the requests of client c rejected by the key verification
\* that were checked less than one window before the request in flight.
RejectedWithin(c) ==
  Cardinality({i \in 1..Len(rejectLog.log[c]) :
                 req.rl.at - rejectLog.log[c][i] < RATE_LIMIT_WINDOW})

\* C27: a request the rate limiter allows is in its client's window before
\* the key is verified and stays there when the request is rejected 401, 403
\* or 500; after RATE_LIMIT_MAX_REQUESTS requests of a client rejected for
\* their key within one window, its next request with the valid key is
\* answered 429.
C27_RejectedRequestsConsumeQuota ==
  /\ (Checked /\ req.rl.allowed /\ (pc = "verify" \/ req.status \in {401, 403, 500})) =>
       /\ WindowAfter # <<>>
       /\ WindowAfter[Len(WindowAfter)] = req.rl.at
  /\ (Checked /\ Truthy(API_KEY) /\ req.token = API_KEY
        /\ RejectedWithin(req.clientId) >= RATE_LIMIT_MAX_REQUESTS) =>
       /\ ~req.rl.allowed
       /\ Answered => (req.status = 429 /\ ~req.handled)

\* A request with the valid key answered 429 after as many requests without
\* a key or with a wrong one as the limit allows, not all at the same time.
C27_Witness ==
  /\ Answered /\ req.status = 429 /\ req.token = API_KEY
  /\ RejectedWithin(req.clientId) = RATE_LIMIT_MAX_REQUESTS
  /\ \E i, j \in 1..Len(rejectLog.log[req.clientId]) :
       rejectLog.log[req.clientId][i] < rejectLog.log[req.clientId][j]

\* C28: a provided key whose byte length is not that of the configured key
\* is answered 403 'Invalid API Key', never the 500 of an exception thrown
\* by the comparison, and does not reach the handler.
C28_LengthMismatch403 ==
  (Answered /\ Checked /\ req.rl.allowed
     /\ Truthy(req.token) /\ Truthy(API_KEY)
     /\ Len(BufferFrom(req.token.val)) # Len(BufferFrom(API_KEY.val))) =>
    /\ req.status = 403 /\ req.error = "Invalid API Key"
    /\ ~req.handled

\* A key one byte shorter than the configured one was answered 403.
C28_Witness ==
  /\ Answered /\ req.status = 403 /\ Truthy(API_KEY)
  /\ Len(BufferFrom(req.token.val)) = Len(BufferFrom(API_KEY.val)) - 1

\* C29: no two employee records have the same email address and no two
\* have the same id.
C29_UniqueEmailAndId ==
  \A i, j \in 1..Len(staff.employees) :
    i # j => /\ staff.employees[i].email # staff.employees[j].email
             /\ staff.employees[i].id # staff.employees[j].id

====
